---- MODULE Spec2Model ----
(***************************************************************************)
(* The notebook workflow of databricks_notebook: the process-wide cached   *)
(* host and API key, the public entry points (create_organization,         *)
(* translate_queries, view_translation_results_as_html,                    *)
(* translate_queries_and_render_results) and the remote calls they issue,  *)
(* one step per remote call.  The standalone module notebook.py has the    *)
(* same steps with an explicit host and no process-wide cache.             *)
(***************************************************************************)
EXTENDS Naturals, Sequences, FiniteSets, TLC

VARIABLES
    notebook_host,      \* _notebook_host (module global)
    current_api_key,    \* _current_api_key (module global)
    pc,                 \* position of the single thread of control
    entry,              \* the public entry point of the current run
    runs,               \* number of entry-point calls made in the session
    org_token,          \* argument org_token of the current run
    host_arg,           \* argument host of the current run
    queries,            \* argument queries of the current run
    api_key,            \* local api_key
    host,               \* local host (after host = _get_host(host))
    data_sources,       \* local data_sources of translate_queries
    source_data_source_id,  \* local source_data_source_id
    target_data_source_id,  \* local target_data_source_id
    project_id,         \* local project_id
    translation_id,     \* local translation_id
    result,             \* local result of the polling loop
    returned,           \* what _wait_for_translation_results returned
    err,                \* the exception that ended the run, if any
    calls,              \* the remote calls of the current run, in order
    last_body,          \* the JSON body of the most recent remote call
    job_k,              \* server: position of the first terminal status (0: never)
    served,             \* server: status responses served for the job
    last_response,      \* server: the most recent status response
    polls,              \* status requests issued by the polling loop
    sleeps,             \* sleeps taken by the polling loop
    sleep_intervals,    \* the set of intervals slept
    translated_models,  \* translation_results['translated_models']
    html,               \* _translation_results_html: local html
    model_n,            \* _translation_results_html: models rendered so far
    rpc,                \* position in _translation_results_html
    source_lines,       \* _render_translated_model_as_html: source_lines
    target_lines,       \* _render_translated_model_as_html: target_lines
    diff,               \* _render_translated_model_as_html: diff
    da,                 \* difflib: lines of source_lines accounted for
    db,                 \* difflib: lines of target_lines accounted for
    hints,              \* difflib: hint lines given for the current model
    diff_i,             \* _render_translated_model_as_html: i
    source_html,        \* _render_translated_model_as_html: source_html
    target_html,        \* _render_translated_model_as_html: target_html
    report              \* what _translation_results_html returned

vars == <<notebook_host, current_api_key, pc, entry, runs, org_token, host_arg,
          queries, api_key, host, data_sources, source_data_source_id,
          target_data_source_id, project_id, translation_id, result, returned,
          err, calls, last_body, job_k, served, last_response, polls, sleeps,
          sleep_intervals>>

session == <<notebook_host, current_api_key>>

rvars == <<translated_models, html, model_n, rpc, source_lines, target_lines, diff,
           da, db, hints, diff_i, source_html, target_html, report>>

allvars == <<vars, rvars>>

----------------------------------------------------------------------------
(* Bounds of the model *)

MaxRuns == 2
MaxQueries == 2
MaxSources == 3
MaxPending == 2
MaxLines == 2
MaxModels == 3
MaxHints == 1

\* counters of the unbounded polling loop saturate here
CountCap == MaxPending + 2

----------------------------------------------------------------------------
(* Values *)

None == "None"
DEFAULT_HOST == "https://app.datafold.com"
POLL_INTERVAL == 5
NoId == 0
NoBody == [empty |-> TRUE]
NoResult == [status |-> None, n |-> 0]

Hosts == {"https://h1", "https://h2"}
Tokens == {"t1", "t2"}
Keys == {"k1", "k2"}
QueryTexts == {"SELECT 1", "SELECT 2"}
SourceTypes == {"databricks", "snowflake", "bigquery"}
ProjectIds == {11}
TaskIds == {21}
NonTerminal == {"pending", "running"}
Terminal == {"done", "failed"}

SeqsUpTo(S, n) == UNION {[1..k -> S] : k \in 0..n}

QueryLists == SeqsUpTo(QueryTexts, MaxQueries)

\* the ids the server gives its data sources, by position: distinct, unsorted
IdAt(i) == 10 * (((2 * i) % 5) + 1)

DataSourceLists ==
    {[i \in 1..Len(ts) |-> [id |-> IdAt(i), type |-> ts[i]]] :
        ts \in SeqsUpTo(SourceTypes, MaxSources)}

Sat(n) == IF n < CountCap THEN n + 1 ELSE n

----------------------------------------------------------------------------
(* Pure helpers *)

Package == entry \in {"tqrr", "tq", "org"}

\* a variant of _get_host that never reads _notebook_host
GetHostNoCache(h, cached) == IF h # None THEN h ELSE DEFAULT_HOST

\* _get_host: the value returned
GetHost(h, cached) ==
    IF h # None THEN h
    ELSE IF cached # None THEN cached
    ELSE DEFAULT_HOST

\* _get_host: _notebook_host afterwards
GetHostCache(h, cached) == IF h # None THEN h ELSE cached

\* [d for d in data_sources if d['type'] != "databricks"]
NonDatabricks(ds) == SelectSeq(ds, LAMBDA d : d.type # "databricks")

\* [d for d in data_sources if d['type'] == "databricks"]
Databricks(ds) == SelectSeq(ds, LAMBDA d : d.type = "databricks")

\* a variant that names the files by the 0-based index
FileNameZeroBased(i) == "query_" \o ToString(i) \o ".sql"

\* f"query_{i+1}.sql" for the 0-based index i of enumerate
FileName(i) == "query_" \o ToString(i + 1) \o ".sql"

\* the 'files' list of _upload_queries
Files(qs) ==
    [j \in 1..Len(qs) |-> [filename |-> FileName(j - 1), content |-> qs[j]]]

\* the payload of _create_dma_project
ProjectPayload(src, tgt, name) ==
    [name |-> name, from_data_source_id |-> src, to_data_source_id |-> tgt,
     version |-> 2]

Call(ep, h, auth) == [ep |-> ep, host |-> h, auth |-> auth]

\* a variant of the loop's test: anything but "pending" ends the loop
IsTerminalNotPending(status) == status # "pending"

\* a variant of the loop's test: only "done" ends the loop
IsTerminalDoneOnly(status) == status = "done"

\* status in ["done", "failed"]
IsTerminal(status) == status \in {"done", "failed"}

\* the statuses the server may answer the next status request with
NextStatuses ==
    IF job_k # 0 /\ served + 1 >= job_k THEN Terminal ELSE NonTerminal

----------------------------------------------------------------------------
(* Texts: a string is the sequence of its characters *)

NL == "\n"

\* model['target_sql'] is None
NullText == <<None>>

\* the lines the texts are made of: an empty line, a plain line, and a line
\* that reads like a marker of the differ
LineSet == {<<>>, <<"a">>, <<"?", " ">>}

RECURSIVE JoinLines(_)
\* "\n".join(ls)
JoinLines(ls) ==
    IF ls = <<>> THEN <<>>
    ELSE IF Len(ls) = 1 THEN ls[1]
    ELSE ls[1] \o <<NL>> \o JoinLines(Tail(ls))

Texts == {JoinLines(ls) : ls \in SeqsUpTo(LineSet, MaxLines)}

RECURSIVE SplitLines(_)
\* str.splitlines(), for the line break "\n"
SplitLines(t) ==
    IF t = <<>> THEN <<>>
    ELSE IF \E k \in 1..Len(t) : t[k] = NL
    THEN LET k == CHOOSE k \in 1..Len(t) :
                      t[k] = NL /\ \A j \in 1..(k - 1) : t[j] # NL
         IN  <<SubSeq(t, 1, k - 1)>> \o SplitLines(SubSeq(t, k + 1, Len(t)))
    ELSE <<t>>

\* model['target_sql'] or ''
OrEmpty(t) == IF t = NullText \/ t = <<>> THEN <<>> ELSE t

\* line.startswith(prefix)
StartsWith(line, prefix) ==
    Len(line) >= Len(prefix) /\ SubSeq(line, 1, Len(prefix)) = prefix

\* neither the report builder nor the renderer is running
ReportIdle ==
    /\ translated_models = <<>>
    /\ html = <<>>
    /\ model_n = 0
    /\ rpc = "idle"
    /\ source_lines = <<>>
    /\ target_lines = <<>>
    /\ diff = <<>>
    /\ da = 0
    /\ db = 0
    /\ hints = 0
    /\ diff_i = 0
    /\ source_html = <<>>
    /\ target_html = <<>>
    /\ report = <<>>

----------------------------------------------------------------------------
(* Initial state: the module just imported *)

WorkflowInit ==
    /\ notebook_host = None
    /\ current_api_key = None
    /\ pc = "idle"
    /\ entry = None
    /\ runs = 0
    /\ org_token = None
    /\ host_arg = None
    /\ queries = <<>>
    /\ api_key = None
    /\ host = None
    /\ data_sources = <<>>
    /\ source_data_source_id = NoId
    /\ target_data_source_id = NoId
    /\ project_id = NoId
    /\ translation_id = NoId
    /\ result = NoResult
    /\ returned = NoResult
    /\ err = None
    /\ calls = <<>>
    /\ last_body = NoBody
    /\ job_k = 0
    /\ served = 0
    /\ last_response = NoResult
    /\ polls = 0
    /\ sleeps = 0
    /\ sleep_intervals = {}

Init == ReportIdle /\ WorkflowInit

\* the caller may invoke an entry point
AtRest == pc \in {"idle", "returned", "raised", "tq_returned"}

\* the locals and the run's record at the start of a run
FreshRun(e, tok, h, qs) ==
    /\ AtRest
    /\ runs < MaxRuns
    /\ runs' = runs + 1
    /\ entry' = e
    /\ org_token' = tok
    /\ host_arg' = h
    /\ queries' = qs
    /\ data_sources' = <<>>
    /\ source_data_source_id' = NoId
    /\ target_data_source_id' = NoId
    /\ project_id' = NoId
    /\ translation_id' = NoId
    /\ result' = NoResult
    /\ returned' = NoResult
    /\ calls' = <<>>
    /\ last_body' = NoBody
    /\ job_k' = 0
    /\ served' = 0
    /\ last_response' = NoResult
    /\ polls' = 0
    /\ sleeps' = 0
    /\ sleep_intervals' = {}

\* a variant that catches the exception and runs the step again
RaiseRetry(e) ==
    /\ pc' = pc
    /\ err' = e

\* an exception leaves the run
Raise(e) ==
    /\ pc' = "raised"
    /\ err' = e

----------------------------------------------------------------------------
(* Entry points *)

\* translate_queries, line 87: host = _get_host(host); notebook.py takes the
\* host as given
EnterTranslateQueries(h, cached) ==
    /\ host' = GetHost(h, cached)
    /\ notebook_host' = GetHostCache(h, cached)
    /\ pc' = "list_data_sources"

\* view_translation_results_as_html, line 126, then
\* _wait_for_translation_results, line 277: two calls of _get_host
EnterView(h, cached) ==
    /\ host' = GetHost(GetHost(h, cached), GetHostCache(h, cached))
    /\ notebook_host' = GetHostCache(GetHost(h, cached), GetHostCache(h, cached))
    /\ pc' = "poll"

\* a variant of _get_current_api_key that provisions whenever a token is given
GetCurrentApiKeyBranchTokenFirst(cached_key, tok) ==
    IF tok # None THEN "provision"
    ELSE IF cached_key # None THEN "cached"
    ELSE "none"

\* a variant of translate_queries_and_render_results without the check of
\* api_key is None: the run goes on with no key
GetCurrentApiKeyBranchUnchecked(cached_key, tok) ==
    IF cached_key # None THEN "cached"
    ELSE IF tok # None THEN "provision"
    ELSE "cached"

\* the branch _get_current_api_key takes: the cached key, a provisioning
\* call, or None (and then the ValueError of line 136)
GetCurrentApiKeyBranch(cached_key, tok) ==
    IF cached_key # None THEN "cached"
    ELSE IF tok # None THEN "provision"
    ELSE "none"

\* translate_queries_and_render_results(queries, org_token, host) up to its
\* first remote call: _get_current_api_key and the check of its result
CallTranslateQueriesAndRender(qs, tok, h) ==
    /\ FreshRun("tqrr", tok, h, qs)
    /\ IF GetCurrentApiKeyBranch(current_api_key, tok) = "cached"
       THEN /\ api_key' = current_api_key
            /\ err' = None
            /\ EnterTranslateQueries(h, notebook_host)
            /\ UNCHANGED current_api_key
       ELSE IF GetCurrentApiKeyBranch(current_api_key, tok) = "provision"
       THEN \* _get_current_api_key line 32, then create_organization line 55
            /\ api_key' = None
            /\ err' = None
            /\ host' = GetHost(GetHost(h, notebook_host),
                               GetHostCache(h, notebook_host))
            /\ notebook_host' = GetHostCache(GetHost(h, notebook_host),
                                             GetHostCache(h, notebook_host))
            /\ pc' = "org"
            /\ UNCHANGED current_api_key
       ELSE /\ api_key' = None
            /\ host' = None
            /\ Raise("ValueError")
            /\ UNCHANGED session

\* create_organization(org_token, host) called by the user
CallCreateOrganization(tok, h) ==
    /\ FreshRun("org", tok, h, <<>>)
    /\ api_key' = None
    /\ err' = None
    /\ host' = GetHost(h, notebook_host)
    /\ notebook_host' = GetHostCache(h, notebook_host)
    /\ pc' = "org"
    /\ UNCHANGED current_api_key

\* translate_queries(api_key, queries, host) called by the user
CallTranslateQueries(k, qs, h) ==
    /\ FreshRun("tq", None, h, qs)
    /\ api_key' = k
    /\ err' = None
    /\ EnterTranslateQueries(h, notebook_host)
    /\ UNCHANGED current_api_key

\* view_translation_results_as_html(api_key, project_id, translation_id, host)
\* called by the user with what translate_queries returned
CallView(h) ==
    /\ pc = "tq_returned"
    /\ entry = "tq"
    /\ EnterView(h, notebook_host)
    /\ host_arg' = h
    /\ UNCHANGED <<current_api_key, entry, runs, org_token, queries, api_key,
                   data_sources, source_data_source_id, target_data_source_id,
                   project_id, translation_id, result, returned, err, calls,
                   last_body, job_k, served, last_response, polls, sleeps,
                   sleep_intervals>>

\* notebook.py: create_organization(host, org_token)
NbCallCreateOrganization(tok, h) ==
    /\ FreshRun("nb_org", tok, h, <<>>)
    /\ api_key' = None
    /\ err' = None
    /\ host' = h
    /\ pc' = "org"
    /\ UNCHANGED session

\* notebook.py: translate_queries(host, api_key, queries)
NbCallTranslateQueries(k, qs, h) ==
    /\ FreshRun("nb_tq", None, h, qs)
    /\ api_key' = k
    /\ err' = None
    /\ host' = h
    /\ pc' = "list_data_sources"
    /\ UNCHANGED session

\* notebook.py: view_translation_results_as_html(host, api_key, project_id,
\* translation_id)
NbCallView(h) ==
    /\ pc = "tq_returned"
    /\ entry = "nb_tq"
    /\ host' = h
    /\ host_arg' = h
    /\ pc' = "poll"
    /\ UNCHANGED <<session, entry, runs, org_token, queries, api_key,
                   data_sources, source_data_source_id, target_data_source_id,
                   project_id, translation_id, result, returned, err, calls,
                   last_body, job_k, served, last_response, polls, sleeps,
                   sleep_intervals>>

----------------------------------------------------------------------------
(* Steps: one per remote call, with the local code that follows it.  A local
   that is read no more is reset where its last use is. *)

args == <<entry, runs, org_token, host_arg>>
server == <<job_k, served, last_response>>
loop == <<polls, sleeps, sleep_intervals, result, returned>>
selection == <<data_sources, source_data_source_id, target_data_source_id>>

\* a helper's own host = _get_host(host): the host the request goes to
ReqHost == IF Package THEN GetHost(host, notebook_host) ELSE host

\* a helper's own host = _get_host(host): _notebook_host afterwards
CacheAfterHelper ==
    IF Package THEN GetHostCache(host, notebook_host) ELSE notebook_host

\* a variant that takes the last match
SourceIdLast(ds) == NonDatabricks(ds)[Len(NonDatabricks(ds))].id

\* [d for d in data_sources if d['type'] != "databricks"][0]['id']
SourceId(ds) == NonDatabricks(ds)[1].id

\* [d for d in data_sources if d['type'] == "databricks"][0]['id']
TargetId(ds) == Databricks(ds)[1].id

\* create_organization from its POST on; in translate_queries_and_render_results
\* the run goes on into translate_queries
CreateOrganization ==
    /\ pc = "org"
    /\ calls' = Append(calls, Call("org", host, org_token))
    /\ last_body' = NoBody
    /\ \/ \* post_data raises
          /\ Raise("RequestError")
          /\ UNCHANGED <<session, api_key, host>>
       \/ \* the body has no 'api_token'
          /\ Raise("KeyError")
          /\ UNCHANGED <<session, api_key, host>>
       \/ \* the body has 'api_token' and no 'org_id'
          \E k \in Keys :
            /\ current_api_key' = IF Package THEN k ELSE current_api_key
            /\ Raise("KeyError")
            /\ UNCHANGED <<notebook_host, api_key, host>>
       \/ \E k \in Keys :
            /\ current_api_key' = IF Package THEN k ELSE current_api_key
            /\ api_key' = k
            /\ err' = None
            /\ IF entry = "tqrr"
               THEN EnterTranslateQueries(host_arg, notebook_host)
               ELSE /\ pc' = "returned"
                    /\ UNCHANGED <<notebook_host, host>>
    /\ UNCHANGED <<args, queries, server, loop, selection, project_id,
                   translation_id>>

\* _get_data_sources and the selection of the two data source ids
ListDataSources ==
    /\ pc = "list_data_sources"
    /\ calls' = Append(calls, Call("data_sources", ReqHost, api_key))
    /\ last_body' = NoBody
    /\ notebook_host' = CacheAfterHelper
    /\ \/ /\ Raise("RequestError")
          /\ UNCHANGED selection
       \/ \* the body is no list of {id, type}
          /\ Raise("KeyError")
          /\ UNCHANGED selection
       \/ \E ds \in DataSourceLists :
            /\ data_sources' = ds
            /\ IF NonDatabricks(ds) = <<>>
               THEN /\ Raise("IndexError")
                    /\ UNCHANGED <<source_data_source_id, target_data_source_id>>
               ELSE IF Databricks(ds) = <<>>
               THEN /\ Raise("IndexError")
                    /\ source_data_source_id' = SourceId(ds)
                    /\ UNCHANGED target_data_source_id
               ELSE /\ source_data_source_id' = SourceId(ds)
                    /\ target_data_source_id' = TargetId(ds)
                    /\ pc' = "create_project"
                    /\ err' = None
    /\ UNCHANGED <<current_api_key, args, queries, server, loop, api_key, host,
                   project_id, translation_id>>

\* _create_dma_project and project['id']
CreateProject ==
    /\ pc = "create_project"
    /\ calls' = Append(calls, Call("projects", ReqHost, api_key))
    /\ notebook_host' = CacheAfterHelper
    /\ last_body' = ProjectPayload(source_data_source_id, target_data_source_id,
                                   "Databricks Notebook Project")
    /\ data_sources' = <<>>
    /\ source_data_source_id' = NoId
    /\ target_data_source_id' = NoId
    /\ \/ /\ Raise("RequestError")
          /\ UNCHANGED project_id
       \/ \* the body has no 'project', or the project no 'id'
          /\ Raise("KeyError")
          /\ UNCHANGED project_id
       \/ \E p \in ProjectIds :
            /\ project_id' = p
            /\ pc' = "upload"
            /\ err' = None
    /\ UNCHANGED <<current_api_key, args, queries, server, loop, api_key, host,
                   translation_id>>

\* a variant of _upload_queries that sends one request per query
UploadQueriesPerFile ==
    /\ pc = "upload"
    /\ calls' = calls \o [j \in 1..Len(queries) |-> Call("files", ReqHost, api_key)]
    /\ notebook_host' = CacheAfterHelper
    /\ last_body' = [files |-> Files(queries)]
    /\ \/ Raise("RequestError")
       \/ Raise("JSONDecodeError")
       \/ pc' = "start" /\ err' = None
    /\ UNCHANGED <<current_api_key, args, queries, server, loop, selection,
                   api_key, host, project_id, translation_id>>

\* _upload_queries
UploadQueries ==
    /\ pc = "upload"
    /\ calls' = Append(calls, Call("files", ReqHost, api_key))
    /\ notebook_host' = CacheAfterHelper
    /\ last_body' = [files |-> Files(queries)]
    /\ \/ Raise("RequestError")
       \/ \* the body is no JSON
          Raise("JSONDecodeError")
       \/ pc' = "start" /\ err' = None
    /\ UNCHANGED <<current_api_key, args, queries, server, loop, selection,
                   api_key, host, project_id, translation_id>>

\* _start_translation; translate_queries returns, and
\* translate_queries_and_render_results goes on into
\* view_translation_results_as_html with no host
StartTranslation ==
    /\ pc = "start"
    /\ calls' = Append(calls, Call("jobs", ReqHost, api_key))
    /\ last_body' = [project_id |-> project_id]
    /\ \/ /\ Raise("RequestError")
          /\ notebook_host' = CacheAfterHelper
          /\ UNCHANGED <<translation_id, job_k, host, queries>>
       \/ \* the body has no 'task_id'
          /\ Raise("KeyError")
          /\ notebook_host' = CacheAfterHelper
          /\ UNCHANGED <<translation_id, job_k, host, queries>>
       \/ \E t \in TaskIds, k \in 0..(MaxPending + 1) :
            /\ translation_id' = t
            /\ job_k' = k
            /\ queries' = <<>>
            /\ err' = None
            /\ IF entry = "tqrr"
               THEN EnterView(None, CacheAfterHelper)
               ELSE /\ pc' = "tq_returned"
                    /\ notebook_host' = CacheAfterHelper
                    /\ UNCHANGED host
    /\ UNCHANGED <<current_api_key, args, served, last_response, loop,
                   selection, api_key, project_id>>

\* one iteration of the loop of _wait_for_translation_results up to its
\* return or its sleep
Poll ==
    /\ pc = "poll"
    /\ polls' = Sat(polls)
    /\ calls' = IF polls < CountCap
                THEN Append(calls, Call("job", host, api_key))
                ELSE calls
    /\ last_body' = NoBody
    /\ \/ /\ Raise("RequestError")
          /\ UNCHANGED <<served, last_response, result, returned>>
       \/ \* the body has no 'status'
          /\ Raise("KeyError")
          /\ UNCHANGED <<served, last_response, result, returned>>
       \/ \E s \in NextStatuses :
            /\ served' = Sat(served)
            /\ last_response' = [status |-> s, n |-> Sat(served)]
            /\ result' = [status |-> s, n |-> Sat(served)]
            /\ err' = None
            /\ IF IsTerminal(s)
               THEN returned' = [status |-> s, n |-> Sat(served)] /\ pc' = "returned"
               ELSE returned' = returned /\ pc' = "sleep"
    /\ UNCHANGED <<session, args, queries, job_k, sleeps, sleep_intervals,
                   selection, api_key, host, project_id, translation_id>>

\* a variant of the sleep with a growing interval
SleepBackoff ==
    /\ pc = "sleep"
    /\ sleeps' = Sat(sleeps)
    /\ sleep_intervals' = sleep_intervals \cup {POLL_INTERVAL * (sleeps + 1)}
    /\ pc' = "poll"
    /\ UNCHANGED <<session, args, queries, server, polls, result, returned, err,
                   calls, last_body, selection, api_key, host, project_id,
                   translation_id>>

\* a variant of the loop that gives up after MaxPending sleeps
SleepWithTimeout ==
    /\ pc = "sleep"
    /\ IF sleeps >= MaxPending
       THEN /\ Raise("TimeoutError")
            /\ UNCHANGED <<sleeps, sleep_intervals>>
       ELSE /\ sleeps' = Sat(sleeps)
            /\ sleep_intervals' = sleep_intervals \cup {POLL_INTERVAL}
            /\ pc' = "poll"
            /\ err' = err
    /\ UNCHANGED <<session, args, queries, server, polls, result, returned,
                   calls, last_body, selection, api_key, host, project_id,
                   translation_id>>

\* time.sleep(poll_interval)
Sleep ==
    /\ pc = "sleep"
    /\ sleeps' = Sat(sleeps)
    /\ sleep_intervals' = sleep_intervals \cup {POLL_INTERVAL}
    /\ pc' = "poll"
    /\ UNCHANGED <<session, args, queries, server, polls, result, returned, err,
                   calls, last_body, selection, api_key, host, project_id,
                   translation_id>>

----------------------------------------------------------------------------
(* The session *)

HostArgs == Hosts \cup {None}

\* the key a caller of translate_queries passes
UserKeys == {"k2"}

\* notebook.py keeps no host and no key: one host and one token show its runs
NbHosts == {"https://h1"}
NbTokens == {"t1"}

Next ==
    \/ \E qs \in QueryLists, tok \in Tokens \cup {None}, h \in HostArgs :
          CallTranslateQueriesAndRender(qs, tok, h) /\ UNCHANGED rvars
    \/ \E tok \in Tokens, h \in HostArgs : CallCreateOrganization(tok, h) /\ UNCHANGED rvars
    \/ \E k \in UserKeys, qs \in QueryLists, h \in HostArgs :
          CallTranslateQueries(k, qs, h) /\ UNCHANGED rvars
    \/ \E h \in HostArgs : CallView(h) /\ UNCHANGED rvars
    \/ \E tok \in NbTokens, h \in NbHosts : NbCallCreateOrganization(tok, h) /\ UNCHANGED rvars
    \/ \E k \in UserKeys, qs \in QueryLists, h \in NbHosts :
          NbCallTranslateQueries(k, qs, h) /\ UNCHANGED rvars
    \/ \E h \in NbHosts : NbCallView(h) /\ UNCHANGED rvars
    \/ CreateOrganization /\ UNCHANGED rvars
    \/ ListDataSources /\ UNCHANGED rvars
    \/ CreateProject /\ UNCHANGED rvars
    \/ UploadQueries /\ UNCHANGED rvars
    \/ StartTranslation /\ UNCHANGED rvars
    \/ Poll /\ UNCHANGED rvars
    \/ Sleep /\ UNCHANGED rvars

Spec == Init /\ [][Next]_vars

\* the loop of _wait_for_translation_results keeps running: a request is
\* answered or fails, and a sleep ends
SpecLive == Spec /\ WF_vars(Poll) /\ WF_vars(Sleep)

----------------------------------------------------------------------------
(* The report: _translation_results_html and, for each model,
   _render_translated_model_as_html.  difflib.Differ().compare is the library's:
   it may give any delta of the two line lists, each line of the first list
   marked "- " or "  ", each line of the second "+ " or "  ", in their order,
   with "? " hint lines after marked lines. *)

AssetNames == {"A", "B", "C"}

Model(name, src, tgt) ==
    [asset_name |-> name, source_sql |-> src, target_sql |-> tgt,
     translation_status |-> "translated"]

\* one model, every pair of texts
SingleModels ==
    {<<Model("A", src, tgt)>> : src \in Texts, tgt \in Texts \cup {NullText}}

\* up to MaxModels models, of few texts
ManyModels ==
    SeqsUpTo({Model(n, <<"a">>, tgt) : n \in AssetNames,
                                       tgt \in {NullText, <<"a">>}},
             MaxModels)

ReportInputs == SingleModels \cup ManyModels

\* f'<div class="line {class}">{content}</div>'
HtmlLine(class, content) == [class |-> class, content |-> content]

\* a variant that cuts one character of the marker
LineContentOffByOne(line) == SubSeq(line, 2, Len(line))

\* line[2:]
LineContent(line) == SubSeq(line, 3, Len(line))

\* a part of the document that ''.join(html) returns
Part(kind, text, status, src, tgt) ==
    [kind |-> kind, text |-> text, status |-> status, source |-> src,
     target |-> tgt]

\* the button with asset_name and the content div with the rendered model
Section(name, status, src, tgt) == Part("section", name, status, src, tgt)

\* ''.join([style, script])
StyleScript == Part("style_script", None, None, <<>>, <<>>)

NoQueriesMessage == "No queries were translated."

\* a variant that puts the new section first
AppendSectionFirst(h, sec) == <<sec>> \o h

\* html.append(...)
AppendSection(h, sec) == Append(h, sec)

\* a variant without the test of an empty translated_models
ReportOfShell(models, h) == <<StyleScript>> \o h

\* the return value of _translation_results_html
ReportOf(models, h) ==
    IF models = <<>>
    THEN <<Part("text", NoQueriesMessage, None, <<>>, <<>>)>>
    ELSE <<StyleScript>> \o h

ReportInit ==
    /\ WorkflowInit
    /\ translated_models \in ReportInputs
    /\ html = <<>>
    /\ model_n = 0
    /\ rpc = "loop"
    /\ source_lines = <<>>
    /\ target_lines = <<>>
    /\ diff = <<>>
    /\ da = 0
    /\ db = 0
    /\ hints = 0
    /\ diff_i = 0
    /\ source_html = <<>>
    /\ target_html = <<>>
    /\ report = <<>>

\* the next model of the loop; _render_translated_model_as_html up to the
\* call of the differ
BeginModel ==
    /\ rpc = "loop"
    /\ model_n < Len(translated_models)
    /\ source_lines' = SplitLines(translated_models[model_n + 1].source_sql)
    /\ target_lines' =
          SplitLines(OrEmpty(translated_models[model_n + 1].target_sql))
    /\ diff' = <<>>
    /\ da' = 0
    /\ db' = 0
    /\ hints' = 0
    /\ diff_i' = 0
    /\ source_html' = <<>>
    /\ target_html' = <<>>
    /\ rpc' = "differ"
    /\ UNCHANGED <<translated_models, html, model_n, report>>

differ_frame == <<translated_models, html, model_n, report, source_lines,
                  target_lines, diff_i, source_html, target_html, rpc>>

\* the differ gives a line of both lists
DiffEqual ==
    /\ rpc = "differ"
    /\ da < Len(source_lines)
    /\ db < Len(target_lines)
    /\ source_lines[da + 1] = target_lines[db + 1]
    /\ diff' = Append(diff, <<" ", " ">> \o source_lines[da + 1])
    /\ da' = da + 1
    /\ db' = db + 1
    /\ UNCHANGED <<differ_frame, hints>>

\* the differ gives a line of the first list only
DiffDelete ==
    /\ rpc = "differ"
    /\ da < Len(source_lines)
    /\ diff' = Append(diff, <<"-", " ">> \o source_lines[da + 1])
    /\ da' = da + 1
    /\ UNCHANGED <<differ_frame, hints, db>>

\* the differ gives a line of the second list only
DiffInsert ==
    /\ rpc = "differ"
    /\ db < Len(target_lines)
    /\ diff' = Append(diff, <<"+", " ">> \o target_lines[db + 1])
    /\ db' = db + 1
    /\ UNCHANGED <<differ_frame, hints, da>>

\* the differ gives a hint line after a marked line
DiffHint ==
    /\ rpc = "differ"
    /\ hints < MaxHints
    /\ diff # <<>>
    /\ \/ StartsWith(diff[Len(diff)], <<"-", " ">>)
       \/ StartsWith(diff[Len(diff)], <<"+", " ">>)
    /\ diff' = Append(diff, <<"?", " ", "^", NL>>)
    /\ hints' = hints + 1
    /\ UNCHANGED <<differ_frame, da, db>>

\* list(differ.compare(source_lines, target_lines)) is complete
DiffDone ==
    /\ rpc = "differ"
    /\ da = Len(source_lines)
    /\ db = Len(target_lines)
    /\ rpc' = "walk"
    /\ UNCHANGED <<translated_models, html, model_n, report, source_lines,
                   target_lines, diff, da, db, hints, diff_i, source_html,
                   target_html>>

\* one iteration of while i < len(diff)
WalkStep ==
    /\ rpc = "walk"
    /\ diff_i < Len(diff)
    /\ LET line == diff[diff_i + 1] IN
         IF StartsWith(line, <<" ", " ">>)
         THEN /\ source_html' =
                    Append(source_html, HtmlLine("unchanged", LineContent(line)))
              /\ target_html' =
                    Append(target_html, HtmlLine("unchanged", LineContent(line)))
         ELSE IF StartsWith(line, <<"-", " ">>)
         THEN /\ source_html' =
                    Append(source_html, HtmlLine("removed", LineContent(line)))
              /\ UNCHANGED target_html
         ELSE IF StartsWith(line, <<"+", " ">>)
         THEN /\ target_html' =
                    Append(target_html, HtmlLine("added", LineContent(line)))
              /\ UNCHANGED source_html
         ELSE UNCHANGED <<source_html, target_html>>
    /\ diff_i' = diff_i + 1
    /\ UNCHANGED <<translated_models, html, model_n, report, source_lines,
                   target_lines, diff, da, db, hints, rpc>>

\* the rendered model is returned and html.append takes its section
EndModel ==
    /\ rpc = "walk"
    /\ diff_i = Len(diff)
    /\ html' = AppendSection(html,
                   Section(translated_models[model_n + 1].asset_name,
                           translated_models[model_n + 1].translation_status,
                           source_html, target_html))
    /\ model_n' = model_n + 1
    /\ rpc' = "loop"
    /\ UNCHANGED <<translated_models, report, source_lines, target_lines, diff,
                   da, db, hints, diff_i, source_html, target_html>>

\* after the loop: the message, or style and script before the sections
Finish ==
    /\ rpc = "loop"
    /\ model_n = Len(translated_models)
    /\ report' = ReportOf(translated_models, html)
    /\ rpc' = "done"
    /\ UNCHANGED <<translated_models, html, model_n, source_lines, target_lines,
                   diff, da, db, hints, diff_i, source_html, target_html>>

ReportNext ==
    \/ BeginModel /\ UNCHANGED vars
    \/ DiffEqual /\ UNCHANGED vars
    \/ DiffDelete /\ UNCHANGED vars
    \/ DiffInsert /\ UNCHANGED vars
    \/ DiffHint /\ UNCHANGED vars
    \/ DiffDone /\ UNCHANGED vars
    \/ WalkStep /\ UNCHANGED vars
    \/ EndModel /\ UNCHANGED vars
    \/ Finish /\ UNCHANGED vars

SpecReport == ReportInit /\ [][ReportNext]_allvars

----------------------------------------------------------------------------
(* Properties *)

Last(q) == q[Len(q)]

\* the step issues one more remote call of the current run
NewCall == runs' = runs /\ Len(calls') = Len(calls) + 1

\* the remote calls of translate_queries and view_translation_results_as_html:
\* the run's calls after the provisioning call, if one was made
TranslateTrace ==
    IF calls # <<>> /\ calls[1].ep = "org" THEN Tail(calls) ELSE calls

CallOrder == <<"data_sources", "projects", "files", "jobs">>

InLoop == pc \in {"poll", "sleep"}

\* the index of the first entry of ds that satisfies P
FirstIndex(ds, P(_)) ==
    CHOOSE i \in 1..Len(ds) : P(ds[i]) /\ \A j \in 1..(i - 1) : ~P(ds[j])

IsDatabricks(d) == d.type = "databricks"
IsOther(d) == d.type # "databricks"

\* C1: in a run of translate_queries followed by
\* view_translation_results_as_html the remote calls are a prefix of list data
\* sources, create project, upload, start job, poll, poll, ...: each of the
\* first four is issued at most once and in this order, before any poll.
C1_CallOrder ==
    entry \in {"tqrr", "tq", "nb_tq"} =>
        \A i \in 1..Len(TranslateTrace) :
            TranslateTrace[i].ep =
                IF i <= Len(CallOrder) THEN CallOrder[i] ELSE "job"

C1_Witness ==
    /\ entry = "tq"
    /\ pc = "returned"
    /\ polls = 3
    /\ Len(calls) = Len(CallOrder) + 3

\* C2: what _wait_for_translation_results returns has status done or failed
\* and is the response of the most recent status request.
C2_ReturnsTerminal ==
    returned # NoResult =>
        /\ returned.status \in {"done", "failed"}
        /\ returned = last_response
        /\ pc = "returned"

C2_Witness ==
    /\ pc = "returned"
    /\ returned.status = "failed"
    /\ returned.n = 3
    /\ polls = 3

\* C3: when the first terminal status is the k-th response, the loop returns
\* after exactly k status requests and k-1 sleeps, every sleep of the one
\* interval poll_interval.
C3_PollCount ==
    (pc = "returned" /\ returned # NoResult) =>
        /\ polls = job_k
        /\ sleeps + 1 = job_k
        /\ Len(SelectSeq(calls, LAMBDA c : c.ep = "job")) = job_k
        /\ sleep_intervals \subseteq {POLL_INTERVAL}
        /\ (sleeps > 0 => sleep_intervals = {POLL_INTERVAL})

C3_Witness ==
    /\ pc = "returned"
    /\ returned.status = "done"
    /\ job_k = 3
    /\ polls = 3
    /\ sleeps = 2

\* C4: a response with status failed ends the loop like done does: it is
\* returned to the caller and no exception is raised.
C4_FailedIsNormal ==
    last_response.status \in {"failed", "done"} =>
        /\ pc = "returned"
        /\ err = None
        /\ returned = last_response

C4_Witness ==
    /\ last_response.status = "failed"
    /\ pc = "returned"
    /\ err = None
    /\ returned.status = "failed"

\* C5: a failed step ends the run with its exception: the exception reaches
\* the caller, and from then on the run issues no remote call (no later step,
\* no retry, no cleanup); the create-project call is issued only when the data
\* sources hold a non-databricks source and a databricks target.
C5_FailureAborts ==
    /\ [](err # None <=> pc = "raised")
    /\ [][err # None /\ runs' = runs => UNCHANGED <<calls, pc, err>>]_vars
    /\ [][NewCall /\ Last(calls').ep = "projects" =>
            /\ NonDatabricks(data_sources) # <<>>
            /\ Databricks(data_sources) # <<>>]_vars
    /\ [](err = "IndexError" =>
            /\ Last(calls).ep = "data_sources"
            /\ \A i \in 1..Len(calls) : calls[i].ep \in {"org", "data_sources"})

C5_Witness ==
    /\ pc = "raised"
    /\ err = "IndexError"
    /\ Len(data_sources) = 2
    /\ Databricks(data_sources) = <<>>
    /\ Last(calls).ep = "data_sources"

\* C6: _upload_queries sends one request whose files list has one entry per
\* query, in input order, the i-th (from 1) named query_<i>.sql with the i-th
\* query as content; no query, no entry.
C6_UploadFiles ==
    (calls # <<>> /\ Last(calls).ep = "files") =>
        /\ Len(SelectSeq(calls, LAMBDA c : c.ep = "files")) = 1
        /\ Len(last_body.files) = Len(queries)
        /\ \A i \in 1..Len(queries) :
              /\ last_body.files[i].filename = "query_" \o ToString(i) \o ".sql"
              /\ last_body.files[i].content = queries[i]
        /\ (queries = <<"SELECT 1", "SELECT 2">> =>
              last_body.files =
                  << [filename |-> "query_1.sql", content |-> "SELECT 1"],
                     [filename |-> "query_2.sql", content |-> "SELECT 2"] >>)

C6_Witness ==
    /\ pc = "start"
    /\ queries = <<"SELECT 2", "SELECT 1">>
    /\ last_body.files[2] = [filename |-> "query_2.sql", content |-> "SELECT 1"]

\* C7: the project is created from the id of the first data source that is not
\* of type databricks to the id of the first that is.
C7_FirstMatch ==
    [][NewCall /\ Last(calls').ep = "projects" =>
        /\ last_body'.from_data_source_id =
              data_sources[FirstIndex(data_sources, IsOther)].id
        /\ last_body'.to_data_source_id =
              data_sources[FirstIndex(data_sources, IsDatabricks)].id]_vars

\* the first and second entries are other sources, the third is databricks
C7_Witness ==
    /\ pc = "upload"
    /\ Last(calls).ep = "projects"
    /\ last_body.from_data_source_id = IdAt(1)
    /\ last_body.to_data_source_id = IdAt(3)

\* C8: in translate_queries_and_render_results, once an API key is cached no
\* step changes it, no provisioning request is issued and every remote call
\* carries the cached key, whatever org_token was given.
C8_KeyReused ==
    [][(entry' = "tqrr" /\ current_api_key # None) =>
        /\ current_api_key' = current_api_key
        /\ (NewCall =>
              /\ Last(calls').ep # "org"
              /\ Last(calls').auth = current_api_key)]_vars

C8_Witness ==
    /\ runs = 2
    /\ entry = "tqrr"
    /\ org_token = "t2"
    /\ pc = "returned"
    /\ current_api_key = "k1"
    /\ \A i \in 1..Len(calls) : calls[i].auth = "k1"

\* C9: translate_queries_and_render_results called with no cached key and no
\* org_token raises ValueError at once: no remote call, cached key and cached
\* host as before.
C9_NoKey ==
    [][(runs' = runs + 1 /\ entry' = "tqrr" /\ current_api_key = None
          /\ org_token' = None) =>
        /\ pc' = "raised"
        /\ err' = "ValueError"
        /\ calls' = <<>>
        /\ UNCHANGED <<notebook_host, current_api_key>>]_vars

C9_Witness ==
    /\ entry = "tqrr"
    /\ pc = "raised"
    /\ err = "ValueError"
    /\ calls = <<>>
    /\ host_arg \in Hosts
    /\ notebook_host = None
    /\ current_api_key = None

\* C10: the loop has no maximum wait.  If the job reaches a terminal status the
\* loop ends; if it never does, the loop ends only by a failed request, never
\* by a return, and it goes on issuing status requests: their count passes
\* every bound (here: reaches the cap of the counter) and each sleep is
\* followed by another request.
C10_Unbounded ==
    /\ (InLoop /\ job_k # 0) ~> (pc \in {"returned", "raised"})
    /\ [][(InLoop /\ job_k = 0) =>
            \/ InLoop'
            \/ (pc' = "raised" /\ err' \in {"RequestError", "KeyError"})]_vars
    /\ (InLoop /\ job_k = 0) ~> (pc = "raised" \/ polls = CountCap)
    /\ (pc = "sleep" /\ job_k = 0) ~> (pc = "poll")

C10_Witness ==
    /\ job_k = 0
    /\ pc = "sleep"
    /\ polls = CountCap
    /\ sleeps = CountCap


\* the contents of a column, in the emitted order
Contents(col) == [k \in 1..Len(col) |-> col[k].content]

\* the classes of a column, in the emitted order
Classes(col) == [k \in 1..Len(col) |-> col[k].class]

\* the model whose difference listing is being rendered
CurrentModel == translated_models[model_n + 1]

Rendered == rpc = "walk" /\ diff_i = Len(diff)

\* C11: when a model is rendered, no line is lost and none is doubled: the
\* contents of the source column (classes unchanged, removed) are the lines of
\* the source text in order, those of the target column (classes unchanged,
\* added) are the lines of the target text in order, hint entries add nothing,
\* and for an empty or null target text the target column is empty and every
\* source line is classed removed.
C11_DiffColumns ==
    Rendered =>
        /\ Contents(source_html) = SplitLines(CurrentModel.source_sql)
        /\ \A k \in 1..Len(source_html) :
             source_html[k].class \in {"unchanged", "removed"}
        /\ \A k \in 1..Len(target_html) :
             target_html[k].class \in {"unchanged", "added"}
        /\ IF CurrentModel.target_sql \in {NullText, <<>>}
           THEN /\ target_html = <<>>
                /\ \A k \in 1..Len(source_html) :
                     source_html[k].class = "removed"
           ELSE Contents(target_html) = SplitLines(CurrentModel.target_sql)
        /\ Len(source_html) + Len(target_html) + hints
             = Len(diff) + Cardinality({k \in 1..Len(source_html) :
                                          source_html[k].class = "unchanged"})

C11_Witness ==
    /\ Rendered
    /\ hints = 1
    /\ Classes(source_html) = <<"unchanged", "removed">>
    /\ Classes(target_html) = <<"unchanged", "added">>
    /\ Contents(source_html) = <<<<"a">>, <<"?", " ">>>>
    /\ Contents(target_html) = <<<<"a">>, <<"a">>>>

C11_WitnessNull ==
    /\ Rendered
    /\ CurrentModel.target_sql = NullText
    /\ Classes(source_html) = <<"removed", "removed">>
    /\ target_html = <<>>


\* C12: for an empty translated_models the report is the fixed message
\* 'No queries were translated.' and nothing else: no style or script block
\* and no section.
C12_EmptyReport ==
    (rpc = "done" /\ Len(translated_models) = 0) =>
        /\ Len(report) = 1
        /\ report[1].kind = "text"
        /\ report[1].text = "No queries were translated."
        /\ \A k \in 1..Len(report) :
             report[k].kind \notin {"style_script", "section"}

C12_Witness ==
    /\ rpc = "done"
    /\ translated_models = <<>>
    /\ model_n = 0
    /\ html = <<>>
    /\ report # <<>>
    /\ report[1].text = NoQueriesMessage

\* C13: for a non-empty translated_models the report is one style and script
\* block followed by exactly one section for each model, in the order of the
\* input (not sorted): section k bears the name and the rendered columns of
\* model k.
C13_SectionsInOrder ==
    (rpc = "done" /\ Len(translated_models) > 0) =>
        /\ Len(report) = Len(translated_models) + 1
        /\ report[1].kind = "style_script"
        /\ \A k \in 1..Len(translated_models) :
             /\ report[k + 1].kind = "section"
             /\ report[k + 1].text = translated_models[k].asset_name
             /\ Contents(report[k + 1].source)
                  = SplitLines(translated_models[k].source_sql)
             /\ (translated_models[k].target_sql # NullText =>
                   Contents(report[k + 1].target)
                     = SplitLines(translated_models[k].target_sql))
             /\ (translated_models[k].target_sql = NullText =>
                   report[k + 1].target = <<>>)

C13_Witness ==
    /\ rpc = "done"
    /\ Len(translated_models) = 3
    /\ translated_models[1].asset_name = "C"
    /\ translated_models[2].asset_name = "A"
    /\ translated_models[3].asset_name = "C"
    /\ translated_models[1].target_sql = NullText
    /\ translated_models[3].target_sql # NullText
    /\ [k \in 1..Len(report) |-> report[k].text] = <<None, "C", "A", "C">>
    /\ report[2].target = <<>>
    /\ report[4].target # <<>>


\* C14: when create_organization fails because the response lacks api_token
\* or org_id (a KeyError), the cached API key is as it was before the call, so
\* no later run can authenticate with a key of a failed provisioning call.
C14_KeyUnchangedOnFailure ==
    [][(pc = "org" /\ pc' = "raised" /\ err' = "KeyError") =>
         current_api_key' = current_api_key]_vars

\* the host a run is to use: the explicit one, else the cached one, else the
\* default
ExpectedHost(explicit, cached) ==
    IF explicit \in Hosts THEN explicit
    ELSE IF cached \in Hosts \cup {DEFAULT_HOST} THEN cached
    ELSE DEFAULT_HOST

\* a run of translate_queries_and_render_results starts and does not raise at
\* once: its host is the expected one
C15_HostChosen ==
    (runs' = runs + 1 /\ entry' = "tqrr" /\ pc' # "raised") =>
        host' = ExpectedHost(host_arg', notebook_host)

\* a run of translate_queries_and_render_results goes on: its host stays
C15_HostKept == (runs' = runs /\ entry = "tqrr") => host' = host

\* every request of a run of translate_queries_and_render_results went to the
\* run's host
C15_SameHost ==
    entry = "tqrr" => \A k \in 1..Len(calls) : calls[k].host = host

\* the explicit host of a run of translate_queries_and_render_results is the
\* cached host
C15_ExplicitCached == (entry = "tqrr" /\ host_arg # None) => notebook_host = host_arg

\* the run raised the ValueError of the missing key, before any _get_host
C15_NoKeyRaised == pc = "raised" /\ err = "ValueError" /\ calls = <<>>

\* C15 as stated: in a run of translate_queries_and_render_results every
\* request goes to one host, the explicit host if given, else the cached host
\* of before, else the default; and an explicit host is the cached host from
\* then on.
C15_OneHostAsStated ==
    /\ [][C15_HostChosen /\ C15_HostKept]_vars
    /\ [](C15_SameHost /\ C15_ExplicitCached)

\* C15, amended: as stated, but an explicit host is the cached host only if
\* the run did not raise the ValueError of a missing key (no cached key, no
\* org_token), which leaves the cached host as it was.
C15_OneHost ==
    /\ [][C15_HostChosen /\ C15_HostKept]_vars
    /\ [](C15_SameHost /\ (~C15_NoKeyRaised => C15_ExplicitCached))
    /\ [][(runs' = runs + 1 /\ entry' = "tqrr" /\ pc' = "raised") =>
            notebook_host' = notebook_host]_vars

C15_Witness ==
    /\ runs = 2
    /\ entry = "tqrr"
    /\ host_arg = None
    /\ notebook_host = "https://h1"
    /\ pc = "returned"
    /\ Len(calls) >= 6
    /\ calls[1].ep = "org"
    /\ \A k \in 1..Len(calls) : calls[k].host = "https://h1"

====
